---- MODULE Spec2Model ----
(***************************************************************************)
(* The log handler of the logging daemon (src/logging/log_handler.c):     *)
(* a collection of log-file entries, each binding the read end of a guest *)
(* pipe, an event-loop watch and a rotating file writer.  One action per  *)
(* public operation and per callback; every operation runs under the      *)
(* handler lock from its first to its last statement, so it is one step.  *)
(***************************************************************************)
EXTENDS Integers, Sequences, FiniteSets, TLC

(* ------------------------------ bounds -------------------------------- *)
\* Highest descriptor number of the process (descriptor table 0..MaxFd).
MaxFd == 6
\* Number of writer objects that can be live at once.
MaxWriters == 2
\* Highest watch id the event loop hands out.
MaxWatch == 2
\* Number of bytes a guest writes into one pipe.
MaxSent == 2
\* Number of times the daemon re-executes itself.
MaxExec == 1
\* sizeof(buf) of the readiness callback, scaled from 1024.
BufSize == 1
\* DEFAULT_FILE_SIZE, the rotation threshold, scaled from 128 KiB.
DEFAULT_FILE_SIZE == 2
\* DEFAULT_MAX_BACKUP, the number of backups kept, scaled from 3.
DEFAULT_MAX_BACKUP == 2
\* Number of bytes appended to the files of one log path.
MaxBytes == 8
\* Length of the longest buffer given to one append.
MaxAppend == 3

FD == 0 .. MaxFd
WID == 1 .. MaxWriters
WatchId == 0 .. MaxWatch
\* Descriptors 0, 1, 2 are the standard streams of the daemon.
StdFds == {0, 1, 2}
\* A NULL writer pointer.
NoWriter == 0

(* --------------------------- small helpers ---------------------------- *)
Min(a, b) == IF a < b THEN a ELSE b
MinOf(S) == CHOOSE x \in S : \A y \in S : x <= y
Take(s, n) == SubSeq(s, 1, Min(n, Len(s)))
Drop(s, n) == SubSeq(s, Min(n, Len(s)) + 1, Len(s))
IsPrefix(s, t) == Len(s) <= Len(t) /\ SubSeq(t, 1, Len(s)) = s
Range(s) == {s[i] : i \in 1 .. Len(s)}
RemoveAt(s, i) == SubSeq(s, 1, i - 1) \o SubSeq(s, i + 1, Len(s))

(* ----------------------------- the state ------------------------------ *)
VARIABLES
    hstate,      \* "none" | "live" | "failed" | "disposed": the handler object
    privileged,  \* handler->privileged
    files,       \* handler->files[0 .. nfiles-1], a sequence of entries
    fds,         \* the descriptor table of the daemon process
    pipes,       \* per read descriptor: the guest pipe behind it
    handles,     \* the event loop: watch id -> registered descriptor, or -1
    writers,     \* the rotating file writers, live or not
    statefile,   \* the restart document handed over an exec
    nexec,       \* how many times the daemon has re-executed itself
    ret,         \* what the last operation was given and what it returned
    lock,        \* the handler's mutex: the thread that holds it, or "none"
    pc,          \* per thread: where it is in the operation it runs
    loc,         \* per thread: the local variables of that operation
    rot          \* the files of one log path and the rotating writer on it

\* The variables of the two detailed views: the threads taking the lock
\* step by step, and the files behind one rotating writer.
aux == <<lock, pc, loc, rot>>
vars == <<hstate, privileged, files, fds, pipes, handles, writers,
          statefile, nexec, ret, lock, pc, loc, rot>>

(* ------------------------- path derivation ---------------------------- *)
\* Strings are sequences of characters; "/" is the only one that matters.
Drivers == {<<"q">>, <<"q", "/", "x">>}
Names == {<<"g">>, <<"x", "/", "g">>}
\* The (driver, guest name) pairs the callers ask for: the second and the
\* third derive the same path.
Doms == {<<<<"q">>, <<"g">>>>, <<<<"q">>, <<"x", "/", "g">>>>,
         <<<<"q", "/", "x">>, <<"g">>>>}
LogLibvirt == <<"V/log/libvirt/">>
CacheDir == <<"H">>

\* virAsprintf(LOCALSTATEDIR "/log/libvirt/%s/%s.log") when privileged,
\* virAsprintf("%s/%s/log/%s.log", cachedir, ...) otherwise.
GetLogFilePathForDomain(priv, driver, domname) ==
    IF priv
    THEN LogLibvirt \o driver \o <<"/">> \o domname \o <<".log">>
    ELSE CacheDir \o <<"/">> \o driver \o <<"/log/">> \o domname
             \o <<".log">>

Paths == {GetLogFilePathForDomain(p, dn[1], dn[2]) :
              p \in BOOLEAN, dn \in Doms}

(* ------------------------ descriptors and pipes ----------------------- *)
\* kind: "closed", "std", "rd" or "wr" (the ends of a pipe); inherit: not
\* close-on-exec; pipe: the pipe an end belongs to, named by the number of
\* its read end, -1 for none or a pipe whose read end is gone; log: for
\* the write end handed to a guest, the path of the log it was opened for.
ClosedFd == [kind |-> "closed", inherit |-> FALSE, pipe |-> -1, log |-> <<>>]
StdFd == [kind |-> "std", inherit |-> TRUE, pipe |-> -1, log |-> <<>>]
NoPipe == [buf |-> <<>>, sent |-> <<>>, logged |-> <<>>, wopen |-> FALSE]
NewPipe == [buf |-> <<>>, sent |-> <<>>, logged |-> <<>>, wopen |-> TRUE]

IsOpen(f, fd) == fd \in FD /\ f[fd].kind # "closed"
FreeFds(f) == {fd \in FD : f[fd].kind = "closed"}

\* virSetInherit(fd, on): fcntl on the descriptor; fails on a closed one.
SetInherit(f, fd, on) == [f EXCEPT ![fd].inherit = on]

(* ----------------------------- event loop ----------------------------- *)
Registered(h) == {w \in WatchId : h[w] # -1}
\* Watch ids are handed out from 1 upwards.
FreeWatches(h) == {w \in WatchId : w >= 1 /\ h[w] = -1}
\* virEventRemoveHandle(watch): unknown watches are ignored.
RemoveHandle(h, w) == IF w \in WatchId THEN [h EXCEPT ![w] = -1] ELSE h

(* ------------------------- rotating file writer ----------------------- *)
\* A writer object: its path and the content of its current file.  What a
\* file holds while no writer is open on it is not tracked: a new writer
\* is given the content it finds (prior).
ClosedWriter == [open |-> FALSE, path |-> <<>>, data |-> <<>>]
FreeWriters(w) == {i \in WID : ~w[i].open}
\* What the file at a path may hold when a writer is created: nothing,
\* or one byte (0) of an earlier run.
PriorContents == {<<>>, <<0>>}
\* The inode number of the current file at a path: one number per path.
InodeOf(path) == 100 + Len(path)

\* virRotatingFileWriterNew(path, maxlen, maxbackup, append, mode): the
\* current file is created when missing and truncated unless append is set.
WriterNew(path, append, prior) ==
    [open |-> TRUE, path |-> path, data |-> IF append THEN prior ELSE <<>>]
\* virRotatingFileWriterFree(file): NULL is ignored.
WriterFree(w, id) == IF id \in WID THEN [w EXCEPT ![id] = ClosedWriter] ELSE w
WriterGetPath(w, id) == w[id].path
WriterGetINode(w, id) == InodeOf(w[id].path)
WriterGetOffset(w, id) == Len(w[id].data)
\* virRotatingFileWriterAppend: the bytes the writer accepts go to the end
\* of its current file.
WriterAppend(w, id, bytes) == [w EXCEPT ![id].data = @ \o bytes]

(* ------------------------------ entries ------------------------------- *)
\* VIR_ALLOC(file): every field zero.
ZeroEntry == [file |-> NoWriter, watch |-> 0, pipefd |-> 0]

\* The resources of the process that the steps of an operation act on.
Res(f, p, h, w) == [fds |-> f, pipes |-> p, handles |-> h, writers |-> w]
CurRes == Res(fds, pipes, handles, writers)

\* VIR_FORCE_CLOSE(fd): closes fd when it is >= 0; closing a descriptor
\* that is not open fails with EBADF and changes nothing.  The pipe behind
\* a read end goes away with it and leaves its write end broken.
ForceClose(r, fd) ==
    IF fd \in FD
    THEN [r EXCEPT
            !.fds = [x \in FD |->
                        IF x = fd THEN ClosedFd
                        ELSE IF r.fds[fd].kind = "rd" /\ r.fds[x].kind = "wr"
                                /\ r.fds[x].pipe = fd
                        THEN [r.fds[x] EXCEPT !.pipe = -1]
                        ELSE r.fds[x]],
            !.pipes[fd] = IF r.fds[fd].kind = "rd" THEN NoPipe ELSE @]
    ELSE r

\* Mutant of LogFileFree: the watch of the entry stays registered.
LogFileFree_KeepWatch(r, e) ==
    LET r1 == ForceClose(r, e.pipefd)
    IN [r1 EXCEPT !.writers = WriterFree(r1.writers, e.file)]
\* virLogHandlerLogFileFree(file), file not NULL.
LogFileFree(r, e) ==
    LET r1 == ForceClose(r, e.pipefd)
        r2 == [r1 EXCEPT !.writers = WriterFree(r1.writers, e.file)]
    IN IF e.watch # -1
       THEN [r2 EXCEPT !.handles = RemoveHandle(r2.handles, e.watch)]
       ELSE r2

\* Mutant of DisposeFiles: only the first entry is freed.
DisposeFiles_FirstOnly(r, fs) ==
    IF fs = <<>> THEN r ELSE LogFileFree(r, Head(fs))
\* virLogHandlerDispose: frees every entry of handler->files.
RECURSIVE DisposeFiles(_, _)
DisposeFiles(r, fs) ==
    IF fs = <<>> THEN r ELSE DisposeFiles(LogFileFree(r, Head(fs)), Tail(fs))

\* Mutant of AppendElement: the entry goes to the front of the array.
AppendElement_Front(fs, e) == <<e>> \o fs
\* VIR_APPEND_ELEMENT_COPY(handler->files, handler->nfiles, file).
AppendElement(fs, e) == Append(fs, e)

\* Mutant of FindPath: the loop never finds the path.
FindPath_NoMatch(fs, w, path) == 0
\* Mutant of FindPath: the first entry is taken whatever its path.
FindPath_First(fs, w, path) == IF fs = <<>> THEN 0 ELSE 1
\* The loop of virLogHandlerDomainOpenLogFile / GetLogFilePosition over
\* handler->files: the first entry whose writer has this path, or 0.
FindPath(fs, w, path) ==
    LET hit == {i \in 1 .. Len(fs) : WriterGetPath(w, fs[i].file) = path}
    IN IF hit = {} THEN 0 ELSE MinOf(hit)

\* virLogHandlerGetLogFileFromWatch.
GetLogFileFromWatch(fs, watch) ==
    LET hit == {i \in 1 .. Len(fs) : fs[i].watch = watch}
    IN IF hit = {} THEN 0 ELSE MinOf(hit)

(* ------------------------- restart documents ------------------------- *)
\* One element of the "files" array: "path" and "pipefd" may be missing.
Element(hp, p, hf, f) == [haspath |-> hp, path |-> p, hasfd |-> hf, pipefd |-> f]
\* kind: "ok" (an array under "files"), "nofiles", "notarray"; "none" is
\* the absence of a document.
NoDoc == [kind |-> "none", files |-> <<>>]

(* ------------------------------ results ------------------------------- *)
\* op: the operation; err: how it failed, or "none"; rc: the descriptor
\* open returned; ino, off: the position open or get_log_position returned;
\* left: the bytes still unread in the pipe of an entry the callback closed.
\* prior: what the writers the operation created found in their files.
\* path: the path open or get_log_position derived; doc, at, fail: the
\* document restore was given and the failure made from outside.
NoRet == [op |-> "none", err |-> "none", rc |-> -1, ino |-> 0, off |-> 0,
          left |-> 0, prior |-> <<>>, path |-> <<>>, doc |-> NoDoc,
          at |-> 0, fail |-> "none"]

\* No call is in progress and no result is waiting for its caller.
Idle == ret = NoRet

(* ------------------ the files behind a rotating writer ---------------- *)
\* The files of one log path: chain[1] is the current file, chain[k + 1]
\* the backup with suffix k.  A file is its inode number and its content.
RotFile(ino, data) == [ino |-> ino, data |-> data]

\* Mutant of Rotate: no backup is ever discarded.
Rotate_KeepAll(chain, ino) ==
    <<RotFile(ino, <<>>)>> \o chain
\* Rotation: backup n becomes n + 1, those beyond DEFAULT_MAX_BACKUP are
\* discarded, the current file becomes backup 1 and a fresh current file
\* with inode ino is created.
Rotate(chain, ino) ==
    <<RotFile(ino, <<>>)>> \o Take(chain, DEFAULT_MAX_BACKUP)

\* new(path, max_size, max_backups, append, mode): the current file is
\* created with inode ino when missing, truncated unless append is set.
RotatingNew(chain, append, ino) ==
    IF chain = <<>> THEN <<RotFile(ino, <<>>)>>
    ELSE IF append THEN chain
    ELSE [chain EXCEPT ![1].data = <<>>]

\* Mutant of RotatingAppend: the current file is filled up to the
\* threshold and the rest of the buffer goes to the next file.
RotatingAppend_Split(chain, ino, bytes) ==
    LET room == DEFAULT_FILE_SIZE - Len(chain[1].data)
    IN IF Len(bytes) <= room THEN [chain EXCEPT ![1].data = @ \o bytes]
       ELSE [Rotate([chain EXCEPT ![1].data = @ \o Take(bytes, room)], ino)
                EXCEPT ![1].data = Drop(bytes, room)]
\* Mutant of RotatingAppend: the writer never rotates.
RotatingAppend_NoRotation(chain, ino, bytes) ==
    [chain EXCEPT ![1].data = @ \o bytes]
\* append(bytes): when the buffer would take the current file past the
\* threshold the writer rotates first; the whole buffer then goes to the
\* current file.
RotatingAppend(chain, ino, bytes) ==
    IF Len(chain[1].data) + Len(bytes) > DEFAULT_FILE_SIZE
    THEN [Rotate(chain, ino) EXCEPT ![1].data = bytes]
    ELSE [chain EXCEPT ![1].data = @ \o bytes]

\* Mutant of ReaderNew: the chain starts with the current file.
ReaderNew_CurrentFirst(chain, maxbackup) ==
    SubSeq(chain, 1, Min(Len(chain), maxbackup + 1))
\* Reader new(path, max_backups): the files that exist, from the oldest
\* backup to the current file.
ReaderNew(chain, maxbackup) ==
    LET n == Min(Len(chain), maxbackup + 1)
    IN [i \in 1 .. n |-> chain[n + 1 - i]]
\* seek(inode, offset): the place in the reader's chain of the file with
\* this inode, 0 when no file of the chain has it.
ReaderSeek(rchain, ino) ==
    LET hit == {i \in 1 .. Len(rchain) : rchain[i].ino = ino}
    IN IF hit = {} THEN 0 ELSE MinOf(hit)
\* The content of the chain from file i on.
RECURSIVE ChainData(_, _)
ChainData(rchain, i) ==
    IF i > Len(rchain) THEN <<>>
    ELSE rchain[i].data \o ChainData(rchain, i + 1)
\* consume(max_len) after a seek to offset off of file i: up to max_len
\* bytes, going on into the next files of the chain.
ReaderConsume(rchain, i, off, maxlen) ==
    Take(Drop(rchain[i].data, off) \o ChainData(rchain, i + 1), maxlen)

(* ------------------- virLogHandlerDomainReadLogFile ------------------- *)
ReadFails == {"none", "path", "reader", "alloc", "consume"}
ReadResult(err, data) == [err |-> err, data |-> data]

\* Mutant of ReadLogFileOn: every failure is reported as an I/O error.
ReadLogFileOn_Generic(chain, inode, offset, maxlen, fail) ==
    LET file == ReaderNew(chain, DEFAULT_MAX_BACKUP)
        at == ReaderSeek(file, inode)
    IN IF fail # "none" \/ file = <<>> \/ at = 0 THEN ReadResult("EIO", <<>>)
       ELSE ReadResult("none", ReaderConsume(file, at, offset, maxlen))
\* What the call returns for the files chain at the derived path: the
\* data, or NULL with the error reported by the step that failed (fail:
\* the step made to fail from outside).  A reader cannot be made when
\* the path has no file at all.
ReadLogFileOn(chain, inode, offset, maxlen, fail) ==
    LET file == ReaderNew(chain, DEFAULT_MAX_BACKUP)
        at == ReaderSeek(file, inode)
    IN IF fail = "path" THEN ReadResult("nopath", <<>>)
       ELSE IF fail = "reader" \/ file = <<>> THEN ReadResult("EIO", <<>>)
       ELSE IF at = 0 THEN ReadResult("PositionStale", <<>>)
       ELSE IF fail = "alloc" THEN ReadResult("ENOMEM", <<>>)
       ELSE IF fail = "consume" THEN ReadResult("EIO", <<>>)
       ELSE ReadResult("none", ReaderConsume(file, at, offset, maxlen))

\* What a read of the files was asked for.
ReadRequest(inode, offset, maxlen, fail) ==
    [ino |-> inode, off |-> offset, maxlen |-> maxlen, fail |-> fail]
NoRequest == ReadRequest(0, 0, 0, "none")

\* chain: the files of the path; open: a writer is open on them; nextino:
\* the inode number the next new file gets; nbytes: how many bytes were
\* appended so far (they are numbered 1, 2, ...); op: the last operation;
\* buf: the buffer of the last append; req, res: the last read and what
\* it returned; cut: a new writer has truncated a current file that held
\* data.
NoRot == [chain |-> <<>>, open |-> FALSE, nextino |-> 1, nbytes |-> 0,
          op |-> "none", buf |-> <<>>, req |-> NoRequest,
          res |-> ReadResult("none", <<>>), cut |-> FALSE]

\* The threads of the daemon that use the handler: the event loop, which
\* runs the callbacks; a worker, which runs get_log_position and
\* read_log_file; the main thread, which runs the capture.
Threads == {"loop", "rpc", "main"}
\* No operation in progress on a thread.
NoLocals == [op |-> "none"]

(* ------------------------------- Init --------------------------------- *)
Init ==
    /\ lock = "none"
    /\ pc = [t \in Threads |-> "idle"]
    /\ loc = [t \in Threads |-> NoLocals]
    /\ rot = NoRot
    /\ hstate = "none"
    /\ privileged = FALSE
    /\ files = <<>>
    /\ fds = [fd \in FD |-> IF fd \in StdFds THEN StdFd ELSE ClosedFd]
    /\ pipes = [fd \in FD |-> NoPipe]
    /\ handles = [w \in WatchId |-> -1]
    /\ writers = [i \in WID |-> ClosedWriter]
    /\ statefile = NoDoc
    /\ nexec = 0
    /\ ret = NoRet

(* --------------------------- virLogHandlerNew ------------------------- *)
New(priv) ==
    /\ Idle
    /\ hstate = "none"
    /\ statefile = NoDoc
    /\ hstate' = "live"
    /\ privileged' = priv
    /\ files' = <<>>
    /\ ret' = [NoRet EXCEPT !.op = "new"]
    /\ UNCHANGED <<fds, pipes, handles, writers, statefile, nexec>>

(* -------------------- virLogHandlerDomainOpenLogFile ------------------ *)
OpenFails == {"none", "path", "pipe", "alloc", "writer", "append", "watch"}

\* Mutant of OpenError: the write end of the pipe is not closed.
OpenError_LeakWriteEnd(r, pipefd0, pipefd1, isnull, file) ==
    LET r1 == ForceClose(r, pipefd0)
    IN IF isnull THEN r1 ELSE LogFileFree(r1, file)
\* The error label: VIR_FORCE_CLOSE(pipefd[0]), VIR_FORCE_CLOSE(pipefd[1]),
\* virLogHandlerLogFileFree(file); isnull: file is still NULL.
OpenError(r, pipefd0, pipefd1, isnull, file) ==
    LET r1 == ForceClose(ForceClose(r, pipefd0), pipefd1)
    IN IF isnull THEN r1 ELSE LogFileFree(r1, file)

\* fail: the step made to fail from outside; prior: what the file holds.
OpenLogFile(driver, domname, fail, prior) ==
    LET path == GetLogFilePathForDomain(privileged, driver, domname)
        free == FreeFds(fds)
        rfd == MinOf(free)
        wfd == MinOf(free \ {rfd})
        wid == MinOf(FreeWriters(writers))
        watch == MinOf(FreeWatches(handles))
        \* pipe(pipefd) gives the two lowest free descriptors.
        r1 == [CurRes EXCEPT
                 !.fds[rfd] = [kind |-> "rd", inherit |-> TRUE, pipe |-> rfd,
                               log |-> <<>>],
                 !.fds[wfd] = [kind |-> "wr", inherit |-> TRUE, pipe |-> rfd,
                               log |-> path],
                 !.pipes[rfd] = NewPipe]
        \* file->watch = -1; file->pipefd = pipefd[0]; pipefd[0] = -1
        file == [file |-> NoWriter, watch |-> -1, pipefd |-> rfd]
        r2 == [r1 EXCEPT !.writers[wid] = WriterNew(path, FALSE, prior)]
        file2 == [file EXCEPT !.file = wid]
        file3 == [file2 EXCEPT !.watch = watch]
        r3 == [r2 EXCEPT !.handles[watch] = rfd]
        out(r, fs, res) ==
            /\ files' = fs
            /\ fds' = r.fds
            /\ pipes' = r.pipes
            /\ handles' = r.handles
            /\ writers' = r.writers
            /\ ret' = res
            /\ UNCHANGED <<hstate, privileged, statefile, nexec>>
        failed(e) == [NoRet EXCEPT !.op = "open", !.err = e,
                          !.path = IF e = "nopath" THEN <<>> ELSE path]
    IN
    /\ Idle
    /\ hstate = "live"
    /\ IF fail = "path"
       THEN out(OpenError(CurRes, -1, -1, TRUE, file), files, failed("nopath"))
       ELSE IF FindPath(files, writers, path) # 0
       THEN out(OpenError(CurRes, -1, -1, TRUE, file), files, failed("EBUSY"))
       ELSE IF fail = "pipe" \/ Cardinality(free) < 2
       THEN out(OpenError(CurRes, -1, -1, TRUE, file), files, failed("pipe"))
       ELSE IF fail = "alloc"
       THEN out(OpenError(r1, rfd, wfd, TRUE, file), files, failed("alloc"))
       ELSE IF fail = "writer" \/ FreeWriters(writers) = {}
       THEN out(OpenError(r1, -1, wfd, FALSE, file), files, failed("writer"))
       ELSE IF fail = "append"
       THEN out(OpenError(r2, -1, wfd, FALSE, file2), files, failed("append"))
       \* virEventAddHandle fails: file->watch is -1 and the entry is
       \* deleted from the end of the array again.
       ELSE IF fail = "watch" \/ FreeWatches(handles) = {}
       THEN out(OpenError(r2, -1, wfd, FALSE, [file2 EXCEPT !.watch = -1]),
                RemoveAt(AppendElement(files, file2), Len(files) + 1),
                failed("watch"))
       ELSE out(r3, AppendElement(files, file3),
                [NoRet EXCEPT !.op = "open", !.rc = wfd, !.prior = prior,
                              !.path = path,
                              !.ino = WriterGetINode(r3.writers, wid),
                              !.off = WriterGetOffset(r3.writers, wid)])

(* ---------------------------- the guests ------------------------------ *)
\* The guest writes the next byte of its output into its pipe; the bytes
\* of one pipe are numbered 1, 2, ... in the order written.
GuestWrite(fd) ==
    /\ Idle
    /\ fds[fd].kind = "rd"
    /\ pipes[fd].wopen
    /\ Len(pipes[fd].sent) < MaxSent
    /\ LET b == Len(pipes[fd].sent) + 1
       IN pipes' = [pipes EXCEPT ![fd].buf = Append(@, b),
                                 ![fd].sent = Append(@, b)]
    /\ UNCHANGED <<hstate, privileged, files, fds, handles, writers,
                   statefile, nexec, ret>>

\* The guest exits: the last write end of its pipe is closed.
GuestClose(fd) ==
    /\ Idle
    /\ fds[fd].kind = "rd"
    /\ pipes[fd].wopen
    /\ pipes' = [pipes EXCEPT ![fd].wopen = FALSE]
    /\ UNCHANGED <<hstate, privileged, files, fds, handles, writers,
                   statefile, nexec, ret>>

(* -------------------- virLogHandlerLogFileClose ----------------------- *)
\* Mutant of LogFileClose: the last element of the array is deleted.
LogFileClose_Last(fs, r, e) ==
    [files |-> RemoveAt(fs, Len(fs)), res |-> LogFileFree(r, e)]
\* Mutant of LogFileClose: the entry is freed but stays in the array.
LogFileClose_KeepElement(fs, r, e) == [files |-> fs, res |-> LogFileFree(r, e)]
\* Deletes the entry e from handler->files and frees it; an entry that is
\* not in the array is left alone.
LogFileClose(fs, r, e) ==
    LET hit == {i \in 1 .. Len(fs) : fs[i] = e}
    IN IF hit = {} THEN [files |-> fs, res |-> r]
       ELSE [files |-> RemoveAt(fs, MinOf(hit)), res |-> LogFileFree(r, e)]

(* ------------------ virLogHandlerDomainLogFileEvent ------------------- *)
ReadOutcomes == {"ok", "EAGAIN", "EIO"}

\* What read(fd, buf, sizeof(buf)) returns from the pipe.
ReadChunk(buf) == Take(buf, BufSize)

\* Mutant of Forwarded: the buffer is passed on from its second byte.
Forwarded_SkipFirst(chunk, k) == Take(Drop(chunk, 1), k)
\* The bytes of a chunk that reach the file when the writer accepts k.
Forwarded(chunk, k) == Take(chunk, k)

\* watch, fd, hup: what the event loop dispatches (hup: the events carry
\* VIR_EVENT_HANDLE_HANGUP); rd: how read() ends (EINTR is retried inside
\* the callback and leaves no trace); k: how many bytes the writer accepts.
LogFileEvent(watch, fd, hup, rd, k) ==
    LET i == GetLogFileFromWatch(files, watch)
        logfile == files[i]
        chunk == ReadChunk(pipes[fd].buf)
        rest == Drop(pipes[fd].buf, Len(chunk))
        got == Forwarded(chunk, k)
        r1 == [CurRes EXCEPT !.pipes[fd].buf = rest,
                             !.pipes[fd].logged = @ \o got,
                             !.writers = WriterAppend(@, logfile.file, got)]
        out(r, fs, res) ==
            /\ files' = fs
            /\ fds' = r.fds
            /\ pipes' = r.pipes
            /\ handles' = r.handles
            /\ writers' = r.writers
            /\ ret' = res
            /\ UNCHANGED <<hstate, privileged, statefile, nexec>>
        close(r, e, left) ==
            LET c == LogFileClose(files, r, logfile)
            IN out(c.res, c.files,
                   [NoRet EXCEPT !.op = "event", !.err = e, !.left = left])
    IN
    /\ Idle
    /\ hstate = "live"
    /\ handles[watch] = fd
    /\ fd # -1
    \* the event loop reports a hangup only once the write end is closed,
    \* and readiness only when read() would not block.
    /\ hup => ~pipes[fd].wopen
    /\ rd = "ok" => (pipes[fd].buf # <<>> \/ ~pipes[fd].wopen)
    /\ k \in 0 .. Len(chunk)
    /\ rd # "ok" => k = 0
    /\ IF i = 0 \/ files[i].pipefd # fd
       THEN out([CurRes EXCEPT !.handles = RemoveHandle(@, watch)], files,
                [NoRet EXCEPT !.op = "event", !.err = "stale"])
       ELSE IF rd # "ok" THEN close(CurRes, rd, Len(pipes[fd].buf))
       ELSE IF k # Len(chunk) THEN close(r1, "short", Len(rest))
       ELSE IF hup THEN close(r1, "hangup", Len(rest))
       ELSE out(r1, files, [NoRet EXCEPT !.op = "event"])

(* ---------------- virLogHandlerDomainGetLogFilePosition --------------- *)
GetLogFilePosition(driver, domname, fail) ==
    LET path == GetLogFilePathForDomain(privileged, driver, domname)
        i == FindPath(files, writers, path)
    IN
    /\ Idle
    /\ hstate = "live"
    /\ ret' = IF fail THEN [NoRet EXCEPT !.op = "getpos", !.err = "nopath"]
              ELSE IF i = 0 THEN [NoRet EXCEPT !.op = "getpos", !.path = path,
                                               !.err = "notfound"]
              ELSE [NoRet EXCEPT !.op = "getpos", !.path = path,
                        !.ino = WriterGetINode(writers, files[i].file),
                        !.off = WriterGetOffset(writers, files[i].file)]
    /\ UNCHANGED <<hstate, privileged, files, fds, pipes, handles, writers,
                   statefile, nexec>>

(* ------------------------ virLogHandlerDispose ------------------------ *)
Dispose ==
    LET r == DisposeFiles(CurRes, files)
    IN
    /\ Idle
    /\ hstate = "live"
    /\ hstate' = "disposed"
    /\ files' = <<>>
    /\ fds' = r.fds
    /\ pipes' = r.pipes
    /\ handles' = r.handles
    /\ writers' = r.writers
    /\ ret' = [NoRet EXCEPT !.op = "dispose"]
    /\ UNCHANGED <<privileged, statefile, nexec>>

(* --------------------- virLogHandlerPreExecRestart -------------------- *)
\* Mutant of DocElement: the watch is written in place of the descriptor.
DocElement_Watch(w, e) == Element(TRUE, WriterGetPath(w, e.file), TRUE, e.watch)
\* The {path, pipefd} object built for one entry.
DocElement(w, e) == Element(TRUE, WriterGetPath(w, e.file), TRUE, e.pipefd)

\* The "files" array after the first n entries.
DocFiles(fs, w, n) == [j \in 1 .. n |-> DocElement(w, fs[j])]

\* Mutant of MarkInherit: no descriptor is marked.
MarkInherit_None(f, fs, n) == f
\* The descriptors of the first n entries marked inheritable.
RECURSIVE MarkInherit(_, _, _)
MarkInherit(f, fs, n) ==
    IF n = 0 THEN f
    ELSE SetInherit(MarkInherit(f, fs, n - 1), fs[n].pipefd, TRUE)

\* done: the entries handled before a JSON allocation failed; without a
\* failure all of them.  The handler lock is not taken.
PreExecRestart(done, failed) ==
    /\ Idle
    /\ hstate = "live"
    /\ done \in 0 .. Len(files)
    /\ ~failed => done = Len(files)
    /\ failed => done < Len(files) \/ files = <<>>
    /\ fds' = MarkInherit(fds, files, done)
    /\ statefile' = IF failed THEN NoDoc
                    ELSE [kind |-> "ok", files |-> DocFiles(files, writers, done)]
    /\ ret' = [NoRet EXCEPT !.op = "capture",
                            !.err = IF failed THEN "oom" ELSE "none"]
    /\ UNCHANGED <<hstate, privileged, files, pipes, handles, writers, nexec>>

(* ------------------------------- exec --------------------------------- *)
\* The daemon re-executes itself right after a successful capture: the
\* process image (handler, event loop, writers) is gone, descriptors
\* marked close-on-exec are closed, the document is handed over.
Exec ==
    /\ ret.op = "capture"
    /\ ret.err = "none"
    /\ nexec < MaxExec
    /\ nexec' = nexec + 1
    /\ hstate' = "none"
    /\ files' = <<>>
    /\ fds' = [fd \in FD |-> IF fds[fd].inherit THEN fds[fd] ELSE ClosedFd]
    /\ pipes' = [fd \in FD |-> IF fds[fd].inherit THEN pipes[fd] ELSE NoPipe]
    /\ handles' = [w \in WatchId |-> -1]
    /\ writers' = [i \in WID |-> ClosedWriter]
    /\ ret' = NoRet
    /\ UNCHANGED <<privileged, statefile>>

(* ---------------- virLogHandlerLogFilePostExecRestart ----------------- *)
RestoreFails == {"none", "alloc", "writer", "inherit", "append", "watch"}

\* Mutant of LogFilePostExecRestart: a missing "pipefd" goes unnoticed.
LogFilePostExecRestart_NoFdCheck(el, r, fail, prior) ==
    LET bad(r1, why) == [ok |-> FALSE, file |-> ZeroEntry, res |-> r1,
                         err |-> why]
        wid == MinOf(FreeWriters(r.writers))
        r1 == [r EXCEPT !.writers[wid] = WriterNew(el.path, FALSE, prior)]
        f2 == [ZeroEntry EXCEPT !.file = wid, !.pipefd = el.pipefd]
    IN
    IF fail = "alloc" THEN bad(r, "alloc")
    ELSE IF ~el.haspath THEN bad(LogFileFree(r, ZeroEntry), "nopath")
    ELSE IF fail = "writer" \/ FreeWriters(r.writers) = {}
    THEN bad(LogFileFree(r, ZeroEntry), "writer")
    ELSE IF fail = "inherit" \/ ~IsOpen(r.fds, el.pipefd)
    THEN bad(LogFileFree(r1, f2), "inherit")
    ELSE [ok |-> TRUE, file |-> f2,
          res |-> [r1 EXCEPT !.fds = SetInherit(@, el.pipefd, FALSE)],
          err |-> "none"]
\* Rebuilds one entry from the element el; fail names the step made to
\* fail from outside.  ok: the entry is returned; otherwise the error
\* label has freed it and NULL is returned.
LogFilePostExecRestart(el, r, fail, prior) ==
    LET bad(r1, why) == [ok |-> FALSE, file |-> ZeroEntry, res |-> r1,
                         err |-> why]
        wid == MinOf(FreeWriters(r.writers))
        r1 == [r EXCEPT !.writers[wid] = WriterNew(el.path, FALSE, prior)]
        f1 == [ZeroEntry EXCEPT !.file = wid]
        f2 == [f1 EXCEPT !.pipefd = el.pipefd]
    IN
    IF fail = "alloc" THEN bad(r, "alloc")
    ELSE IF ~el.haspath THEN bad(LogFileFree(r, ZeroEntry), "nopath")
    ELSE IF fail = "writer" \/ FreeWriters(r.writers) = {}
    THEN bad(LogFileFree(r, ZeroEntry), "writer")
    ELSE IF ~el.hasfd THEN bad(LogFileFree(r1, f1), "nopipefd")
    ELSE IF fail = "inherit" \/ ~IsOpen(r.fds, el.pipefd)
    THEN bad(LogFileFree(r1, f2), "inherit")
    ELSE [ok |-> TRUE, file |-> f2,
          res |-> [r1 EXCEPT !.fds = SetInherit(@, el.pipefd, FALSE)],
          err |-> "none"]

(* ------------------ virLogHandlerNewPostExecRestart ------------------- *)
\* What restore has built: the entries of the new handler, the resources
\* of the process, and err, "none" while it succeeds, with the element at
\* which it failed.
RState(fs, r, err, at) == [files |-> fs, res |-> r, err |-> err, at |-> at]

\* The loop over the "files" array from element i on; at, fail: the
\* element and the step made to fail from outside.
RECURSIVE RestoreLoop(_, _, _, _, _, _)
RestoreLoop(els, i, st, at, fail, prior) ==
    IF i > Len(els) THEN st
    ELSE
        LET one == LogFilePostExecRestart(els[i], st.res,
                       IF at = i THEN fail ELSE "none", prior)
            watch == MinOf(FreeWatches(one.res.handles))
            added == AppendElement(st.files, one.file)
        IN
        IF ~one.ok THEN RState(st.files, one.res, one.err, i)
        ELSE IF at = i /\ fail = "append"
        THEN RState(st.files, one.res, "append", i)
        \* virEventAddHandle fails: the entry is deleted from the array.
        ELSE IF (at = i /\ fail = "watch") \/ FreeWatches(one.res.handles) = {}
        THEN RState(RemoveAt(added, Len(added)), one.res, "watch", i)
        ELSE RestoreLoop(els, i + 1,
                 RState(AppendElement(st.files,
                                      [one.file EXCEPT !.watch = watch]),
                        [one.res EXCEPT !.handles[watch] = one.file.pipefd],
                        "none", 0),
                 at, fail, prior)

NewPostExecRestart(doc, priv, at, fail, prior) ==
    LET st == IF doc.kind = "nofiles" THEN RState(<<>>, CurRes, "nofiles", 0)
              ELSE IF doc.kind = "notarray"
              THEN RState(<<>>, CurRes, "notarray", 0)
              ELSE RestoreLoop(doc.files, 1, RState(<<>>, CurRes, "none", 0),
                               at, fail, prior)
        \* the error label: virObjectUnref(handler) runs virLogHandlerDispose
        r == IF st.err = "none" THEN st.res ELSE DisposeFiles(st.res, st.files)
    IN
    /\ Idle
    /\ hstate = "none"
    /\ statefile # NoDoc
    /\ hstate' = IF st.err = "none" THEN "live" ELSE "failed"
    /\ privileged' = priv
    /\ files' = IF st.err = "none" THEN st.files ELSE <<>>
    /\ fds' = r.fds
    /\ pipes' = r.pipes
    /\ handles' = r.handles
    /\ writers' = r.writers
    /\ ret' = [NoRet EXCEPT !.op = "restore", !.err = st.err, !.doc = doc,
                            !.at = st.at,
                            !.fail = IF at <= Len(doc.files) THEN fail
                                     ELSE "none",
                            !.prior = IF st.err = "none" THEN prior ELSE <<>>]
    /\ UNCHANGED <<statefile, nexec>>

\* The documents a restarted daemon may find: the captured one, or the
\* captured one with one defect.
WithElement(doc, i, el) == [doc EXCEPT !.files[i] = el]
Defects(doc) ==
    {[kind |-> "nofiles", files |-> <<>>], [kind |-> "notarray", files |-> <<>>]}
    \cup {WithElement(doc, i, [doc.files[i] EXCEPT !.haspath = FALSE]) :
              i \in 1 .. Len(doc.files)}
    \cup {WithElement(doc, i, [doc.files[i] EXCEPT !.hasfd = FALSE]) :
              i \in 1 .. Len(doc.files)}
    \cup {WithElement(doc, i, [doc.files[i] EXCEPT !.path = doc.files[j].path]) :
              i \in 1 .. Len(doc.files), j \in 1 .. Len(doc.files)}
    \cup {WithElement(doc, i, [doc.files[i] EXCEPT !.pipefd = fd]) :
              i \in 1 .. Len(doc.files), fd \in FreeFds(fds)}

\* The caller takes the result of the operation that returned.  A captured
\* document that is not used for an exec is dropped.  The capture made for
\* an exec beyond MaxExec is where a behaviour ends.
Return ==
    /\ ret # NoRet
    /\ hstate \in {"none", "live"}
    /\ ret.op = "capture" => nexec < MaxExec
    /\ ret' = NoRet
    /\ statefile' = IF ret.op = "capture" THEN NoDoc ELSE statefile
    /\ UNCHANGED <<hstate, privileged, files, fds, pipes, handles, writers,
                   nexec>>

Next ==
    \/ \E priv \in BOOLEAN : New(priv) /\ UNCHANGED aux
    \/ \E dn \in Doms, f \in OpenFails :
          \E prior \in IF f = "none" THEN PriorContents ELSE {<<>>} :
              OpenLogFile(dn[1], dn[2], f, prior) /\ UNCHANGED aux
    \/ \E fd \in FD : GuestWrite(fd) /\ UNCHANGED aux
    \/ \E fd \in FD : GuestClose(fd) /\ UNCHANGED aux
    \/ \E w \in WatchId, fd \in FD, hup \in BOOLEAN, rd \in ReadOutcomes,
          k \in 0 .. BufSize :
              LogFileEvent(w, fd, hup, rd, k) /\ UNCHANGED aux
    \/ \E dn \in Doms, f \in BOOLEAN :
          GetLogFilePosition(dn[1], dn[2], f) /\ UNCHANGED aux
    \/ Dispose /\ UNCHANGED aux
    \/ \E done \in 0 .. MaxWriters, failed \in BOOLEAN :
          PreExecRestart(done, failed) /\ UNCHANGED aux
    \/ Exec /\ UNCHANGED aux
    \/ \E at \in 1 .. MaxWriters, fail \in RestoreFails :
          \E prior \in IF fail = "none" THEN PriorContents ELSE {<<>>} :
              NewPostExecRestart(statefile, privileged, at, fail, prior)
              /\ UNCHANGED aux
    \/ \E doc \in Defects(statefile) :
          NewPostExecRestart(doc, privileged, 1, "none", <<>>)
          /\ UNCHANGED aux
    \/ Return /\ UNCHANGED aux

Spec == Init /\ [][Next]_vars

(* ====================================================================== *)
(* The rotating writer and the reader on the files of one log path.       *)
(* ====================================================================== *)
\* The variables of the handler, which these steps leave alone.
hvars == <<hstate, privileged, files, fds, pipes, handles, writers,
           statefile, nexec, ret, lock, pc, loc>>

\* A writer is created on the path.
RotNew(append) ==
    /\ ~rot.open
    /\ rot' = [rot EXCEPT
                 !.chain = RotatingNew(@, append, rot.nextino),
                 !.nextino = IF rot.chain = <<>> THEN @ + 1 ELSE @,
                 !.open = TRUE, !.op = "new",
                 !.cut = @ \/ (~append /\ rot.chain # <<>>
                                 /\ rot.chain[1].data # <<>>),
                 !.req = NoRequest, !.res = ReadResult("none", <<>>)]
    /\ UNCHANGED hvars

\* The writer is freed; the files stay.
RotFree ==
    /\ rot.open
    /\ rot' = [rot EXCEPT !.open = FALSE, !.op = "free",
                          !.req = NoRequest, !.res = ReadResult("none", <<>>)]
    /\ UNCHANGED hvars

\* A buffer of n bytes is appended.
RotAppend(n) ==
    LET bytes == [i \in 1 .. n |-> rot.nbytes + i]
        chain == RotatingAppend(rot.chain, rot.nextino, bytes)
    IN
    /\ rot.open
    /\ rot.nbytes + n <= MaxBytes
    /\ rot' = [rot EXCEPT
                 !.chain = chain,
                 !.nextino = IF chain[1].ino = rot.nextino THEN @ + 1 ELSE @,
                 !.nbytes = @ + n, !.op = "append", !.buf = bytes,
                 !.req = NoRequest, !.res = ReadResult("none", <<>>)]
    /\ UNCHANGED hvars

\* The files of the path are read as virLogHandlerDomainReadLogFile
\* reads them, whether a writer is open or not.  The next read comes
\* after the files have changed.
RotRead(inode, offset, maxlen, fail) ==
    /\ rot.op \notin {"none", "read"}
    /\ rot' = [rot EXCEPT
                 !.op = "read",
                 !.req = ReadRequest(inode, offset, maxlen, fail),
                 !.res = ReadLogFileOn(rot.chain, inode, offset, maxlen, fail)]
    /\ UNCHANGED hvars

RotNext ==
    \/ \E append \in BOOLEAN : RotNew(append)
    \/ RotFree
    \/ \E n \in 1 .. MaxAppend : RotAppend(n)
    \/ \E inode \in 0 .. rot.nextino - 1, fail \in ReadFails :
          \E offset \in IF fail = "none" THEN 0 .. 1 ELSE {0},
             maxlen \in IF fail = "none"
                        THEN (1 .. DEFAULT_FILE_SIZE + 1) \cup {MaxBytes}
                        ELSE {1} :
                RotRead(inode, offset, maxlen, fail)

RotSpec == Init /\ [][RotNext]_vars
(* ====================================================================== *)
(* The threads and the handler lock, statement by statement.              *)
(* ====================================================================== *)
\* The variables these steps leave alone.
lvars == <<hstate, privileged, statefile, nexec, ret, rot>>
hlvars == <<hstate, privileged, statefile, nexec, ret>>

LDom1 == <<<<"q">>, <<"g">>>>
LDom2 == <<<<"q">>, <<"x", "/", "g">>>>
LPath1 == GetLogFilePathForDomain(FALSE, LDom1[1], LDom1[2])
LPath2 == GetLogFilePathForDomain(FALSE, LDom2[1], LDom2[2])
LPath(dn) == GetLogFilePathForDomain(FALSE, dn[1], dn[2])

\* An unprivileged handler after two opens: the first guest has written
\* one byte, which is logged, the second one three bytes, the first of
\* which is logged while the others are still in its pipe, and both guests
\* have exited.  rot.chain holds the files of the second guest's log.
LockInit ==
    /\ hstate = "live"
    /\ privileged = FALSE
    /\ files = <<[file |-> 1, watch |-> 1, pipefd |-> 3],
                 [file |-> 2, watch |-> 2, pipefd |-> 5]>>
    /\ fds = [fd \in FD |->
                IF fd \in StdFds THEN StdFd
                ELSE IF fd \in {3, 5}
                THEN [kind |-> "rd", inherit |-> TRUE, pipe |-> fd,
                      log |-> <<>>]
                ELSE IF fd \in {4, 6}
                THEN [kind |-> "wr", inherit |-> TRUE, pipe |-> fd - 1,
                      log |-> IF fd = 4 THEN LPath1 ELSE LPath2]
                ELSE ClosedFd]
    /\ pipes = [fd \in FD |->
                  IF fd = 3 THEN [buf |-> <<>>, sent |-> <<1>>,
                                  logged |-> <<1>>, wopen |-> FALSE]
                  ELSE IF fd = 5 THEN [buf |-> <<2, 3>>, sent |-> <<1, 2, 3>>,
                                       logged |-> <<1>>, wopen |-> FALSE]
                  ELSE NoPipe]
    /\ handles = [w \in WatchId |-> IF w = 1 THEN 3 ELSE IF w = 2 THEN 5
                                     ELSE -1]
    /\ writers = [i \in WID |->
                    IF i \in {1, 2}
                    THEN WriterAppend(
                         [j \in WID |-> WriterNew(IF i = 1 THEN LPath1
                                                           ELSE LPath2,
                                                  FALSE, <<>>)],
                         i, <<1>>)[i]
                    ELSE ClosedWriter]
    /\ statefile = NoDoc
    /\ nexec = 0
    /\ ret = NoRet
    /\ lock = "none"
    /\ pc = [t \in Threads |-> "idle"]
    /\ loc = [t \in Threads |-> NoLocals]
    /\ rot = [NoRot EXCEPT
                !.chain = RotatingAppend(
                             RotatingNew(<<>>, FALSE, InodeOf(LPath2)),
                             1, <<1>>),
                !.open = TRUE]

\* The files at a path, as a reader finds them.  The log of the second
\* guest is rot.chain.  The log of the first guest has no backups: its
\* current file holds what the writer of the live entry has in it, and
\* the one byte of the guest once the entry is closed.
FilesAt(path) ==
    LET i == FindPath(files, writers, path)
    IN IF path = LPath2 THEN rot.chain
       ELSE IF i # 0
       THEN <<RotFile(InodeOf(path), writers[files[i].file].data)>>
       ELSE IF path = LPath1 THEN <<RotFile(InodeOf(path), <<1>>)>>
       ELSE <<>>

\* virObjectLock(handler) / virObjectUnlock(handler).
ObjectLock(t) == lock = "none" /\ lock' = t
ObjectUnlock(t) == lock = t /\ lock' = "none"

(* --- virLogHandlerDomainLogFileEvent on the event loop ---------------- *)
\* The event loop dispatches watch w, whose descriptor is readable, with
\* or without the hangup flag; the callback takes the lock and looks the
\* entry up.  intr: the last read() was interrupted; nread: the reads
\* that returned data or end of file; chunk: what the read returned.
EvLock(w, hup) ==
    /\ pc["loop"] = "idle"
    /\ handles[w] # -1
    /\ GetLogFileFromWatch(files, w) # 0
    /\ pipes[handles[w]].buf # <<>> \/ ~pipes[handles[w]].wopen
    /\ hup => ~pipes[handles[w]].wopen
    /\ ObjectLock("loop")
    /\ pc' = [pc EXCEPT !["loop"] = "locked"]
    /\ loc' = [loc EXCEPT !["loop"] =
                  [op |-> "event", hup |-> hup, intr |-> FALSE, nread |-> 0,
                   chunk |-> <<>>,
                   file |-> files[GetLogFileFromWatch(files, w)]]]
    /\ UNCHANGED <<files, fds, pipes, handles, writers>>
    /\ UNCHANGED lvars

\* read() fails with EINTR: goto reread.
EvIntr ==
    /\ pc["loop"] = "locked"
    /\ loc' = [loc EXCEPT !["loop"].intr = ~@]
    /\ UNCHANGED <<files, fds, pipes, handles, writers, lock, pc>>
    /\ UNCHANGED lvars

\* read() fails with another error: goto error.
EvReadFail ==
    /\ pc["loop"] = "locked"
    /\ pc' = [pc EXCEPT !["loop"] = "error"]
    /\ UNCHANGED <<files, fds, pipes, handles, writers, lock, loc>>
    /\ UNCHANGED lvars

\* read() returns what the pipe holds, up to sizeof(buf) bytes.
EvReadOk ==
    LET fd == loc["loop"].file.pipefd
        chunk == ReadChunk(pipes[fd].buf)
    IN
    /\ pc["loop"] = "locked"
    /\ pc' = [pc EXCEPT !["loop"] = "append"]
    /\ pipes' = [pipes EXCEPT ![fd].buf = Drop(@, Len(chunk))]
    /\ loc' = [loc EXCEPT !["loop"].chunk = chunk, !["loop"].nread = @ + 1]
    /\ UNCHANGED <<files, fds, handles, writers, lock>>
    /\ UNCHANGED lvars

\* virRotatingFileWriterAppend on the log of the second guest finds that
\* the buffer does not fit.
NeedsRotation ==
    LET l == loc["loop"]
    IN /\ WriterGetPath(writers, l.file.file) = LPath2
       /\ Len(rot.chain[1].data) + Len(l.chunk) > DEFAULT_FILE_SIZE

\* The first half of a rotation: the backups and the current file are
\* renamed, and the path has no current file (inode 0).
EvRotRename ==
    /\ pc["loop"] = "append"
    /\ NeedsRotation
    /\ rot' = [rot EXCEPT !.chain = Rotate(@, 0), !.op = "rotating"]
    /\ pc' = [pc EXCEPT !["loop"] = "rotating"]
    /\ UNCHANGED <<files, fds, pipes, handles, writers, lock, loc>>
    /\ UNCHANGED hlvars

\* The second half: the new current file is created.
EvRotCreate ==
    /\ pc["loop"] = "rotating"
    /\ rot' = [rot EXCEPT !.chain[1].ino = rot.nextino, !.nextino = @ + 1,
                          !.op = "none"]
    /\ writers' = [writers EXCEPT ![loc["loop"].file.file].data = <<>>]
    /\ pc' = [pc EXCEPT !["loop"] = "append"]
    /\ UNCHANGED <<files, fds, pipes, handles, lock, loc>>
    /\ UNCHANGED hlvars

\* virRotatingFileWriterAppend accepts k bytes, which go to the current
\* file; a short append and a hangup go to error, otherwise the callback
\* is done.
EvAppend(k) ==
    LET l == loc["loop"]
        got == Forwarded(l.chunk, k)
    IN
    /\ pc["loop"] = "append"
    /\ ~NeedsRotation
    /\ k \in 0 .. Len(l.chunk)
    /\ writers' = WriterAppend(writers, l.file.file, got)
    /\ rot' = IF WriterGetPath(writers, l.file.file) = LPath2
              THEN [rot EXCEPT !.chain[1].data = @ \o got]
              ELSE rot
    /\ pipes' = [pipes EXCEPT ![l.file.pipefd].logged = @ \o got]
    /\ pc' = [pc EXCEPT !["loop"] =
                 IF k # Len(l.chunk) \/ l.hup THEN "error" ELSE "kept"]
    /\ UNCHANGED <<files, fds, handles, lock, loc>>
    /\ UNCHANGED hlvars

\* error: virLogHandlerLogFileClose deletes the element ...
EvDelete ==
    /\ pc["loop"] = "error"
    /\ files' = LogFileClose(files, CurRes, loc["loop"].file).files
    /\ pc' = [pc EXCEPT !["loop"] = "deleted"]
    /\ UNCHANGED <<fds, pipes, handles, writers, lock, loc>>
    /\ UNCHANGED lvars

\* ... and frees the entry.
EvFree ==
    LET r == LogFileFree(CurRes, loc["loop"].file)
    IN
    /\ pc["loop"] = "deleted"
    /\ fds' = r.fds
    /\ pipes' = r.pipes
    /\ handles' = r.handles
    /\ writers' = r.writers
    /\ rot' = IF WriterGetPath(writers, loc["loop"].file.file) = LPath2
              THEN [rot EXCEPT !.open = FALSE]
              ELSE rot
    /\ pc' = [pc EXCEPT !["loop"] = "freed"]
    /\ UNCHANGED <<files, lock, loc>>
    /\ UNCHANGED hlvars

\* Mutant of EvUnlock: the callback returns with the lock held.
EvUnlock_Held ==
    /\ pc["loop"] \in {"kept", "freed"}
    /\ pc' = [pc EXCEPT !["loop"] = "idle"]
    /\ loc' = [loc EXCEPT !["loop"] = NoLocals]
    /\ UNCHANGED <<files, fds, pipes, handles, writers, lock>>
    /\ UNCHANGED lvars
\* virObjectUnlock(handler) and return, on both ways out.
EvUnlock ==
    /\ pc["loop"] \in {"kept", "freed"}
    /\ ObjectUnlock("loop")
    /\ pc' = [pc EXCEPT !["loop"] = "idle"]
    /\ loc' = [loc EXCEPT !["loop"] = NoLocals]
    /\ UNCHANGED <<files, fds, pipes, handles, writers>>
    /\ UNCHANGED lvars

(* --- open_log_file, get_log_position and read_log_file on a worker --- *)
\* Mutant of RpcLock: the operation starts without the lock.
RpcLock_NoLock(op, driver, domname, inode, fail) ==
    /\ pc["rpc"] = "idle"
    /\ pc' = [pc EXCEPT !["rpc"] = "locked"]
    /\ loc' = [loc EXCEPT !["rpc"] =
                  [op |-> op, driver |-> driver, domname |-> domname,
                   ino |-> inode, fail |-> fail]]
    /\ UNCHANGED <<files, fds, pipes, handles, writers, lock>>
    /\ UNCHANGED lvars
\* All three take the lock first.
RpcLock(op, driver, domname, inode, fail) ==
    /\ pc["rpc"] = "idle"
    /\ ObjectLock("rpc")
    /\ pc' = [pc EXCEPT !["rpc"] = "locked"]
    /\ loc' = [loc EXCEPT !["rpc"] =
                  [op |-> op, driver |-> driver, domname |-> domname,
                   ino |-> inode, fail |-> fail]]
    /\ UNCHANGED <<files, fds, pipes, handles, writers>>
    /\ UNCHANGED lvars

\* virLogHandlerDomainGetLogFilePosition between lock and unlock.
PosScan ==
    LET l == loc["rpc"]
        path == GetLogFilePathForDomain(privileged, l.driver, l.domname)
        i == FindPath(files, writers, path)
    IN
    /\ pc["rpc"] = "locked"
    /\ l.op = "getpos"
    /\ pc' = [pc EXCEPT !["rpc"] = "done"]
    /\ loc' = [loc EXCEPT !["rpc"] =
                  [op |-> "getpos", path |-> path,
                   res |-> IF i = 0 THEN ReadResult("notfound", <<>>)
                           ELSE ReadResult("none",
                                  <<FilesAt(path)[1].ino,
                                    WriterGetOffset(writers, files[i].file)>>)]]
    /\ UNCHANGED <<files, fds, pipes, handles, writers, lock>>
    /\ UNCHANGED lvars

\* Mutant of RdRead: the read is refused when the path has no live entry.
RdRead_NeedsEntry ==
    LET l == loc["rpc"]
        path == GetLogFilePathForDomain(privileged, l.driver, l.domname)
    IN
    /\ pc["rpc"] = "locked"
    /\ l.op = "read"
    /\ pc' = [pc EXCEPT !["rpc"] = "done"]
    /\ loc' = [loc EXCEPT !["rpc"] =
                  [l EXCEPT !.op = "read"] @@
                  [path |-> path,
                   res |-> IF FindPath(files, writers, path) = 0
                           THEN ReadResult("notfound", <<>>)
                           ELSE ReadLogFileOn(FilesAt(path), l.ino, 0,
                                              DEFAULT_FILE_SIZE, l.fail)]]
    /\ UNCHANGED <<files, fds, pipes, handles, writers, lock>>
    /\ UNCHANGED lvars
\* virLogHandlerDomainReadLogFile between lock and unlock: offset 0 and
\* maxlen DEFAULT_FILE_SIZE are asked for.
RdRead ==
    LET l == loc["rpc"]
        path == GetLogFilePathForDomain(privileged, l.driver, l.domname)
    IN
    /\ pc["rpc"] = "locked"
    /\ l.op = "read"
    /\ pc' = [pc EXCEPT !["rpc"] = "done"]
    /\ loc' = [loc EXCEPT !["rpc"] =
                  [l EXCEPT !.op = "read"] @@
                  [path |-> path,
                   res |-> ReadLogFileOn(FilesAt(path), l.ino, 0,
                                         DEFAULT_FILE_SIZE, l.fail)]]
    /\ UNCHANGED <<files, fds, pipes, handles, writers, lock>>
    /\ UNCHANGED lvars

\* virLogHandlerDomainOpenLogFile between lock and unlock, on every way
\* through it.
RpcOpen ==
    /\ pc["rpc"] = "locked"
    /\ loc["rpc"].op = "open"
    /\ \E fail \in OpenFails :
          OpenLogFile(loc["rpc"].driver, loc["rpc"].domname, fail, <<>>)
    /\ pc' = [pc EXCEPT !["rpc"] = "done"]
    /\ UNCHANGED <<lock, loc, rot>>

\* virObjectUnlock(handler) and return; the caller takes the result.
RpcUnlock ==
    /\ pc["rpc"] = "done"
    /\ ObjectUnlock("rpc")
    /\ pc' = [pc EXCEPT !["rpc"] = "idle"]
    /\ loc' = [loc EXCEPT !["rpc"] = NoLocals]
    /\ ret' = NoRet
    /\ UNCHANGED <<files, fds, pipes, handles, writers>>
    /\ UNCHANGED <<hstate, privileged, statefile, nexec, rot>>

(* --- virLogHandlerPreExecRestart on the main thread ------------------- *)
\* The capture takes no lock.  i: the loop index, from 1; doc: the "files"
\* array so far; fd: the pipefd read for the element under construction;
\* ub: a read went beyond the end of handler->files.
CapBegin ==
    /\ pc["main"] = "idle"
    /\ pc' = [pc EXCEPT !["main"] = "check"]
    /\ loc' = [loc EXCEPT !["main"] =
                  [op |-> "capture", i |-> 1, doc |-> <<>>, fd |-> -1,
                   ub |-> FALSE]]
    /\ UNCHANGED <<files, fds, pipes, handles, writers, lock>>
    /\ UNCHANGED lvars

\* i < handler->nfiles
CapCheck ==
    /\ pc["main"] = "check"
    /\ pc' = [pc EXCEPT !["main"] =
                 IF loc["main"].i <= Len(files) THEN "fd" ELSE "done"]
    /\ UNCHANGED <<files, fds, pipes, handles, writers, lock, loc>>
    /\ UNCHANGED lvars

\* handler->files[i]->pipefd is read for the "pipefd" member.  When the
\* array has lost the element meanwhile the read is outside the array and
\* may give any number.
CapFd ==
    LET l == loc["main"]
    IN
    /\ pc["main"] = "fd"
    /\ pc' = [pc EXCEPT !["main"] = "path"]
    /\ \E fd \in IF l.i <= Len(files) THEN {files[l.i].pipefd} ELSE FD :
          loc' = [loc EXCEPT !["main"].fd = fd,
                             !["main"].ub = l.ub \/ l.i > Len(files)]
    /\ UNCHANGED <<files, fds, pipes, handles, writers, lock>>
    /\ UNCHANGED lvars

\* The path of handler->files[i]->file is read for the "path" member and
\* handler->files[i]->pipefd is made inheritable; outside the array the
\* reads may give anything and virSetInherit may hit any descriptor.
CapPath ==
    LET l == loc["main"]
        in == l.i <= Len(files)
    IN
    /\ pc["main"] = "path"
    /\ pc' = [pc EXCEPT !["main"] = "check"]
    /\ \E path \in IF in THEN {WriterGetPath(writers, files[l.i].file)}
                           ELSE {LPath1, LPath2},
          fd \in IF in THEN {files[l.i].pipefd}
                       ELSE {x \in FD : IsOpen(fds, x)} :
          /\ loc' = [loc EXCEPT
                       !["main"].doc = Append(@, Element(TRUE, path, TRUE, l.fd)),
                       !["main"].i = @ + 1,
                       !["main"].ub = l.ub \/ ~in]
          /\ fds' = SetInherit(fds, fd, TRUE)
    /\ UNCHANGED <<files, pipes, handles, writers, lock>>
    /\ UNCHANGED lvars

\* return ret
CapEnd ==
    /\ pc["main"] = "done"
    /\ pc' = [pc EXCEPT !["main"] = "idle"]
    /\ loc' = [loc EXCEPT !["main"] = NoLocals]
    /\ UNCHANGED <<files, fds, pipes, handles, writers, lock>>
    /\ UNCHANGED lvars

LockNext ==
    \/ \E w \in WatchId, hup \in BOOLEAN : EvLock(w, hup)
    \/ EvIntr
    \/ EvReadFail
    \/ EvReadOk
    \/ EvRotRename
    \/ EvRotCreate
    \/ \E k \in 0 .. BufSize : EvAppend(k)
    \/ EvDelete
    \/ EvFree
    \/ EvUnlock
    \/ \E dn \in {LDom1, LDom2} : RpcLock("getpos", dn[1], dn[2], 0, "none")
    \/ RpcLock("open", LDom1[1], LDom1[2], 0, "none")
    \/ \E dn \in {LDom1, LDom2}, fail \in ReadFails :
          \E inode \in IF fail = "none" THEN {InodeOf(LPath(dn)), 0}
                                       ELSE {0} :
             RpcLock("read", dn[1], dn[2], inode, fail)
    \/ PosScan
    \/ RdRead
    \/ RpcOpen
    \/ RpcUnlock
    \/ CapBegin
    \/ CapCheck
    \/ CapFd
    \/ CapPath
    \/ CapEnd

LockSpec == LockInit /\ [][LockNext]_vars

\* A thread that is inside the callback or inside an operation of the
\* worker keeps running: its next statement is executed at some time.  A
\* read() is not interrupted for ever.
LockLive ==
    /\ LockSpec
    /\ WF_vars(EvReadFail \/ EvReadOk \/ EvRotRename \/ EvRotCreate
                  \/ (\E k \in 0 .. BufSize : EvAppend(k))
                  \/ EvDelete \/ EvFree \/ EvUnlock)
    /\ WF_vars(PosScan \/ RdRead \/ RpcOpen \/ RpcUnlock)

(* ====================================================================== *)
(* The claims.                                                            *)
(* ====================================================================== *)
PathOf(w, e) == w[e.file].path
LiveAt(fs, w, path) == \E i \in 1 .. Len(fs) : PathOf(w, fs[i]) = path
SameHandlerState ==
    /\ files' = files
    /\ fds' = fds
    /\ pipes' = pipes
    /\ handles' = handles
    /\ writers' = writers
OpenStep == ret'.op = "open" /\ ret.op = "none"

\* C1: an open for a (driver, guest) whose derived path already has a live
\* entry fails with the busy error and leaves the entry collection, the
\* descriptors, the pipes, the watches and the writers as they were.
C1_DuplicateOpenRejected ==
    [][(OpenStep /\ ret'.path # <<>> /\ LiveAt(files, writers, ret'.path))
          => (ret'.err = "EBUSY" /\ SameHandlerState)]_vars
\* A second open of a live path has been rejected as busy.
C1_Witness == ret.op = "open" /\ ret.err = "EBUSY" /\ Len(files) >= 1

\* C2: no two live entries have writers over the same path, in every
\* reachable state, whether the handler was built by opens or by restore.
C2_PathsUnique ==
    \A i, j \in 1 .. Len(files) :
        i # j => PathOf(writers, files[i]) # PathOf(writers, files[j])

\* C3: whichever step of open fails, afterwards both pipe ends are closed,
\* the writer is released, no watch of the call is registered and the
\* entry collection is what it was before the call.
C3_FailedOpenUnwinds ==
    [][(OpenStep /\ ret'.err # "none") => SameHandlerState]_vars
\* An open has failed at its last step, the registration of the watch,
\* with pipe, entry and writer already created.
C3_Witness ==
    /\ ret.op = "open"
    /\ ret.err = "watch"
    /\ Cardinality(FreeFds(fds)) >= 2
    /\ FreeWatches(handles) # {}

\* C4: a successful open returns the write end of a fresh pipe and adds
\* exactly one entry at the end of the collection, holding the read end of
\* that pipe, a writer over the derived path and a registered watch; the
\* entries that existed are unchanged and the returned (inode, offset) is
\* the position of the new writer.
C4_OpenPostcondition ==
    [][(OpenStep /\ ret'.err = "none") =>
          LET e == files'[Len(files')]
          IN /\ files' = Append(files, e)
             /\ ~IsOpen(fds, ret'.rc) /\ ~IsOpen(fds, e.pipefd)
             /\ fds'[ret'.rc].kind = "wr" /\ fds'[e.pipefd].kind = "rd"
             /\ fds'[ret'.rc].pipe = e.pipefd
             /\ pipes'[e.pipefd] = NewPipe
             /\ e.file \in WID /\ ~writers[e.file].open
             /\ writers'[e.file].open
             /\ writers'[e.file].path = ret'.path
             /\ e.watch >= 0
             /\ handles[e.watch] = -1 /\ handles'[e.watch] = e.pipefd
             /\ ret'.ino = InodeOf(ret'.path)
             /\ ret'.off = Len(writers'[e.file].data)
             /\ \A fd \in FD \ {ret'.rc, e.pipefd} :
                    fds'[fd] = fds[fd] /\ pipes'[fd] = pipes[fd]
             /\ \A w \in WatchId \ {e.watch} : handles'[w] = handles[w]
             /\ \A i \in WID \ {e.file} : writers'[i] = writers[i]]_vars
\* An open has succeeded next to an entry that already existed.
C4_Witness == ret.op = "open" /\ ret.err = "none" /\ Len(files) = 2

\* C5: when the callback closes an entry because of a hangup, every byte
\* the guest wrote into the pipe has been appended to the writer: nothing
\* is left unread in the pipe.
C5_HangupDrainsPipe ==
    (ret.op = "event" /\ ret.err = "hangup") => ret.left = 0

\* C6: for every entry the bytes appended to its writer are, in order and
\* without gap or repetition, the first bytes the guest wrote to its pipe:
\* what was forwarded followed by what is still in the pipe is what the
\* guest wrote, and the file of the writer ends with what was forwarded
\* since the writer was created.
IsSuffix(s, t) ==
    Len(s) <= Len(t) /\ SubSeq(t, Len(t) - Len(s) + 1, Len(t)) = s
EventCloseStep ==
    /\ ret.op = "none"
    /\ ret'.op = "event"
    /\ ret'.err \in {"EAGAIN", "EIO", "short", "hangup"}
C7_ErrorIsolation ==
    [][EventCloseStep =>
          /\ hstate' = "live"
          /\ \E i \in 1 .. Len(files) :
                /\ files' = RemoveAt(files, i)
                /\ ~IsOpen(fds', files[i].pipefd)
                /\ \A j \in (1 .. Len(files)) \ {i} :
                      /\ fds'[files[j].pipefd] = fds[files[j].pipefd]
                      /\ IsOpen(fds', files[j].pipefd)
                      /\ pipes'[files[j].pipefd] = pipes[files[j].pipefd]
                      /\ handles'[files[j].watch] = files[j].pipefd
                      /\ writers'[files[j].file] = writers[files[j].file]
                      /\ writers'[files[j].file].open]_vars
\* The callback has closed one entry while another stays in the collection.
C7_Witness ==
    /\ ret.op = "event"
    /\ ret.err \in {"EIO", "short", "hangup"}
    /\ Len(files) = 1

\* C8: after a failed restore no handler exists and everything the restore
\* acquired is released: no writer is open, no watch is registered, and the
\* pipe descriptor of every entry rebuilt so far, the failing one included,
\* is closed.
RestoredFds(doc, at, err) ==
    {doc.files[j].pipefd : j \in {k \in 1 .. Len(doc.files) :
         /\ doc.files[k].hasfd
         /\ \/ k < at
            \/ k = at /\ err \in {"inherit", "append", "watch"}}}
C8_RestoreAllOrNothing ==
    hstate = "failed" =>
        /\ \A i \in WID : ~writers[i].open
        /\ Registered(handles) = {}
        /\ \A fd \in RestoredFds(ret.doc, ret.at, ret.err) : ~IsOpen(fds, fd)

\* C9: capture writes the (path, pipe descriptor) pairs of the entries in
\* order, and restore of that document succeeds with as many entries,
\* the same pairs in the same order, each with a watch registered for its
\* descriptor and the descriptor close-on-exec again.
C9_RestartRoundTrip ==
    [][/\ (ret.op = "none" /\ ret'.op = "capture" /\ ret'.err = "none") =>
            /\ Len(statefile'.files) = Len(files)
            /\ \A i \in 1 .. Len(files) :
                  /\ statefile'.files[i].haspath /\ statefile'.files[i].hasfd
                  /\ statefile'.files[i].path = PathOf(writers, files[i])
                  /\ statefile'.files[i].pipefd = files[i].pipefd
                  /\ fds'[files[i].pipefd].inherit
       /\ (ret.op = "none" /\ ret'.op = "restore" /\ ret'.doc = statefile
              /\ ret'.fail = "none") =>
            /\ ret'.err = "none"
            /\ hstate' = "live"
            /\ Len(files') = Len(statefile.files)
            /\ \A i \in 1 .. Len(files') :
                  /\ PathOf(writers', files'[i]) = statefile.files[i].path
                  /\ files'[i].pipefd = statefile.files[i].pipefd
                  /\ files'[i].watch >= 0
                  /\ handles'[files'[i].watch] = files'[i].pipefd
                  /\ IsOpen(fds', files'[i].pipefd)
                  /\ fds[files'[i].pipefd].inherit
                  /\ ~fds'[files'[i].pipefd].inherit]_vars
\* A handler with two entries has been captured and restored.
C9_Witness ==
    /\ ret.op = "restore"
    /\ ret.err = "none"
    /\ ret.doc = statefile
    /\ Len(files) = 2
    /\ nexec = 1

\* C10: open creates its writer truncating, so the new writer starts from
\* an empty file; restore creates each writer appending, so the new writer
\* starts from the content the file had.
C10_WriterModes ==
    /\ (ret.op = "open" /\ ret.err = "none") =>
           writers[files[Len(files)].file].data = <<>>
    /\ (ret.op = "restore" /\ ret.err = "none") =>
           \A i \in 1 .. Len(files) : writers[files[i].file].data = ret.prior
\* C11: a successful capture returns a document with one {path, pipefd}
\* element per live entry, in the order of the collection, path being the
\* path of the entry's writer and pipefd its pipe descriptor; afterwards
\* the pipe descriptor of every live entry is inheritable, and the entry
\* collection, the watches and the writers are as before.
CaptureStep == ret.op = "none" /\ ret'.op = "capture" /\ ret'.err = "none"
C11_CaptureResult ==
    [][CaptureStep =>
          /\ statefile'.kind = "ok"
          /\ statefile'.files =
                 [i \in 1 .. Len(files) |->
                     Element(TRUE, PathOf(writers, files[i]),
                             TRUE, files[i].pipefd)]
          /\ \A i \in 1 .. Len(files') : fds'[files'[i].pipefd].inherit
          /\ \A fd \in FD :
                 /\ fds'[fd].kind = fds[fd].kind
                 /\ fds'[fd].pipe = fds[fd].pipe
                 /\ fds'[fd].inherit # fds[fd].inherit =>
                        \E i \in 1 .. Len(files) : files[i].pipefd = fd
          /\ files' = files
          /\ handles' = handles
          /\ writers' = writers
          /\ pipes' = pipes]_vars
\* A handler rebuilt by restore, whose descriptors were close-on-exec
\* again, has been captured with two entries.
C11_Witness ==
    /\ ret.op = "capture"
    /\ ret.err = "none"
    /\ nexec = 1
    /\ Len(files) = 2
    /\ Len(statefile.files) = 2
\* C13: get_log_position succeeds exactly when a live entry has a writer
\* over the path derived from (privileged, driver, guest name), and then
\* returns the (inode, offset) of that writer; otherwise it fails as not
\* found.  Either way the entry collection, the watches, the descriptors
\* and the writers are unchanged; in particular it fails for a guest whose
\* entry the callback has closed.
GetPosStep == ret.op = "none" /\ ret'.op = "getpos" /\ ret'.err # "nopath"
C13_GetLogPosition ==
    [][GetPosStep =>
          /\ SameHandlerState
          /\ hstate' = hstate
          /\ ret'.err \in {"none", "notfound"}
          /\ ret'.err = "none" <=> LiveAt(files, writers, ret'.path)
          /\ ret'.err = "none" =>
                 \E i \in 1 .. Len(files) :
                    /\ PathOf(writers, files[i]) = ret'.path
                    /\ ret'.ino = InodeOf(ret'.path)
                    /\ ret'.off = Len(writers[files[i].file].data)]_vars
\* The position of a writer that has logged a byte has been returned while
\* another entry is live.
C13_Witness ==
    /\ ret.op = "getpos"
    /\ ret.err = "none"
    /\ ret.off >= 1
    /\ Len(files) = 2
\* C14: after the handler is disposed, the pipe descriptor of every entry
\* that was in the collection is closed, its writer is released and its
\* watch is no longer registered; no entry, writer or watch of the handler
\* survives.
DisposeStep == ret.op = "none" /\ ret'.op = "dispose"
C14_DisposalReleasesAll ==
    [][DisposeStep =>
          /\ hstate' = "disposed"
          /\ files' = <<>>
          /\ \A i \in 1 .. Len(files) :
                 /\ ~IsOpen(fds', files[i].pipefd)
                 /\ pipes'[files[i].pipefd] = NoPipe
                 /\ ~writers'[files[i].file].open
                 /\ handles'[files[i].watch] = -1
          /\ \A i \in WID : ~writers'[i].open
          /\ Registered(handles') = {}
          /\ \A fd \in FD : fds'[fd].kind # "rd"]_vars
\* A handler with two entries has been disposed: two guests hold the
\* write end of a pipe whose read end is closed.
C14_Witness ==
    /\ hstate = "disposed"
    /\ Cardinality({fd \in FD : fds[fd].kind = "wr" /\ fds[fd].pipe = -1}) = 2
    /\ \A fd \in FD : fds[fd].kind # "rd"
RestoreStep == ret.op = "none" /\ ret'.op = "restore"
Malformed(doc) ==
    \/ doc.kind \in {"nofiles", "notarray"}
    \/ \E i \in 1 .. Len(doc.files) :
          ~doc.files[i].haspath \/ ~doc.files[i].hasfd
C17_MalformedRejected ==
    [][/\ (RestoreStep /\ Malformed(ret'.doc)) =>
            /\ ret'.err # "none"
            /\ hstate' = "failed"
            /\ files' = <<>>
       /\ (RestoreStep /\ ret'.doc.kind = "ok" /\ ret'.doc.files = <<>>) =>
            /\ ret'.err = "none"
            /\ hstate' = "live"
            /\ files' = <<>>]_vars
\* A document whose second element has no "pipefd" has been rejected
\* after its first element was rebuilt.
C17_Witness ==
    /\ ret.op = "restore"
    /\ ret.err = "nopipefd"
    /\ ret.at = 2
    /\ hstate = "failed"
\* C18: a seek to an inode that no retained file has (the current file and
\* the backups 1 .. max_backups) fails as PositionStale, and the read
\* reports that to its caller as an outcome different from the failure of
\* making the reader, of the allocation and of consume.
Retained(chain) ==
    {chain[i].ino : i \in 1 .. Min(Len(chain), DEFAULT_MAX_BACKUP + 1)}
RotAppendStep == rot'.op = "append" /\ rot'.nbytes > rot.nbytes
C19_RotateThenWriteWhole ==
    [][RotAppendStep =>
          LET old == rot.chain
              new == rot'.chain
              kept == Min(Len(old), DEFAULT_MAX_BACKUP)
          IN IF Len(old[1].data) + Len(rot'.buf) > DEFAULT_FILE_SIZE
             THEN /\ new[1].data = rot'.buf
                  /\ new[1].ino \notin {old[i].ino : i \in 1 .. Len(old)}
                  /\ Len(new) = kept + 1
                  /\ \A k \in 1 .. kept : new[k + 1] = old[k]
             ELSE new = [old EXCEPT ![1].data = @ \o rot'.buf]]_vars
\* An append that did not fit has rotated a file that held data.
C19_Witness ==
    /\ rot.op = "append"
    /\ Len(rot.chain) >= 2
    /\ rot.chain[1].data = rot.buf
    /\ Len(rot.chain[2].data) = 1
    /\ Len(rot.buf) = 2

InCollection(t) ==
    CASE t = "loop" ->
            pc[t] \in {"locked", "append", "rotating", "error", "deleted"}
      [] t = "rpc" -> pc[t] = "locked"
      [] t = "main" -> pc[t] \in {"check", "fd", "path"}
C12_Serialized ==
    /\ \A t1, t2 \in Threads :
          t1 # t2 => ~(InCollection(t1) /\ InCollection(t2))
    /\ loc["main"].op = "capture" => ~loc["main"].ub

\* C16: read_log_file gives the same outcome whether or not the derived
\* path has a live entry, and leaves the entry collection, the pipe, watch
\* and writer of every entry and the registered watches as they were,
\* when it succeeds and when it fails.
RdStep == pc["rpc"] = "locked" /\ loc["rpc"].op = "read" /\ pc'["rpc"] = "done"
C16_ReadIndependent ==
    [][RdStep =>
          /\ SameHandlerState
          /\ hstate' = hstate
          /\ loc'["rpc"].res =
                 ReadLogFileOn(FilesAt(loc'["rpc"].path), loc["rpc"].ino, 0,
                               DEFAULT_FILE_SIZE, loc["rpc"].fail)]_vars
\* The log of a guest has been read after the callback closed its entry.
C16_Witness ==
    /\ pc["rpc"] = "done"
    /\ loc["rpc"].op = "read"
    /\ loc["rpc"].path = LPath1
    /\ loc["rpc"].res = ReadResult("none", <<1>>)
    /\ ~LiveAt(files, writers, LPath1)
\* C21: a writer with max_backups = k that started with no backups has,
\* after N rotations, exactly min(N, k) backups, with the suffixes
\* 1 .. min(N, k), suffix 1 being the file rotated last; when N > k the
\* content discarded is the oldest, and a rotation leaves the k files
\* rotated last as they were.
\* Files get the inode numbers 1, 2, ... as they are created and the first
\* one is created with the writer, so the rotations so far are two less
\* than the next inode number.
Rotations(r) == r.nextino - 2
RotationStep == rot.chain # <<>> /\ rot'.nextino > rot.nextino
C21_BackupBound ==
    [][RotationStep =>
          LET old == rot.chain
              new == rot'.chain
              kept == Min(Len(old), DEFAULT_MAX_BACKUP)
          IN /\ Rotations(rot') = Rotations(rot) + 1
             /\ Len(new) - 1 = Min(Rotations(rot'), DEFAULT_MAX_BACKUP)
             /\ \A j \in 1 .. Len(new) - 1 : new[j + 1].ino = new[1].ino - j
             /\ \A j \in 1 .. kept : new[j + 1] = old[j]
             /\ Len(old) > DEFAULT_MAX_BACKUP =>
                   \A j \in 1 .. kept :
                      old[Len(old)].ino < old[j].ino]_vars
\* A third rotation has discarded the first file while two backups with
\* data are kept.
C21_Witness ==
    /\ rot.op = "append"
    /\ Rotations(rot) > DEFAULT_MAX_BACKUP
    /\ Len(rot.chain) = DEFAULT_MAX_BACKUP + 1
    /\ rot.chain[1].ino = rot.nextino - 1
    /\ \A j \in 2 .. Len(rot.chain) : rot.chain[j].data # <<>>
\* C22: after a known byte sequence has been appended to a writer across
\* rotations, a reader on the same path and max_backups that seeks to the
\* start of the oldest retained file and consumes gets the retained
\* suffix of the sequence, each byte once and in order, and gets fewer
\* bytes than it asked for only at the end of the whole chain.
\* The bytes appended are numbered 1, 2, ...; the retained suffix has as
\* many bytes as the files hold.
RetainedSuffix(r) ==
    LET n == Len(ChainData(r.chain, 1))
    IN [i \in 1 .. n |-> r.nbytes - n + i]
C22_RoundTrip ==
    (/\ rot.op = "read"
     /\ ~rot.cut
     /\ rot.req.fail = "none"
     /\ rot.req.ino = rot.chain[Len(rot.chain)].ino
     /\ rot.req.off = 0)
    => /\ rot.res.err = "none"
       /\ rot.res.data = Take(RetainedSuffix(rot), rot.req.maxlen)
       /\ Len(rot.res.data) < rot.req.maxlen
             => rot.res.data = RetainedSuffix(rot)
\* The whole of three files has been read after the first bytes were
\* rotated out.
C22_Witness ==
    /\ rot.op = "read"
    /\ ~rot.cut
    /\ rot.req.fail = "none"
    /\ rot.req.ino = rot.chain[Len(rot.chain)].ino
    /\ rot.req.off = 0
    /\ rot.req.maxlen = MaxBytes
    /\ Len(rot.chain) = DEFAULT_MAX_BACKUP + 1
    /\ \A j \in 1 .. Len(rot.chain) : rot.chain[j].data # <<>>
    /\ Len(rot.res.data) >= 4
    /\ rot.res.data[1] > 1
\* C23: a callback whose read() returns zero bytes closes the entry, with
\* or without the hangup flag in the events.  Put the other way round: a
\* callback that found its entry, read without error and left the entry
\* in the collection has read at least one byte from a pipe.
EventStep == ret.op = "none" /\ ret'.op = "event"
C23_ZeroReadCloses ==
    [][(EventStep /\ ret'.err = "none") =>
          \E fd \in FD :
             Len(pipes'[fd].logged) > Len(pipes[fd].logged)]_vars

\* C24: a callback whose read() fails because it would block leaves the
\* entry as it was: the collection, the descriptors, the pipes, the
\* watches and the writers are unchanged.
C24_WouldBlockKeepsEntry ==
    [][(EventStep /\ ret'.err = "EAGAIN") => SameHandlerState]_vars
CallbackReturn == pc["loop"] \in {"kept", "freed"} /\ pc'["loop"] = "idle"
EntryOpen(e) ==
    /\ \E i \in 1 .. Len(files) : files[i] = e
    /\ IsOpen(fds, e.pipefd)
    /\ handles[e.watch] = e.pipefd
    /\ writers[e.file].open
EntryTornDown(e) ==
    /\ \A i \in 1 .. Len(files) : files[i] # e
    /\ ~IsOpen(fds, e.pipefd)
    /\ handles[e.watch] = -1
    /\ ~writers[e.file].open
C26_CallbackCompletes ==
    /\ [](\A t \in {"loop", "rpc"} : pc[t] = "idle" => lock # t)
    /\ (pc["loop"] # "idle") ~> (pc["loop"] = "idle")
    /\ (pc["rpc"] # "idle") ~> (pc["rpc"] = "idle")
    /\ [][CallbackReturn =>
             LET l == loc["loop"]
             IN /\ l.nread <= 1
                /\ Len(l.chunk) <= BufSize
                /\ lock' = "none"
                /\ EntryOpen(l.file) # EntryTornDown(l.file)
                /\ EntryOpen(l.file) =>
                      /\ l.nread = 1
                      /\ IsSuffix(l.chunk, pipes[l.file.pipefd].logged)
                      /\ IsSuffix(l.chunk, writers[l.file.file].data)]_vars
\* The callback has returned twice with the lock free: once with a byte
\* appended and the entry of the second guest still open, once with the
\* entry of the first guest torn down.
C26_Witness ==
    /\ \A t \in Threads : pc[t] = "idle"
    /\ lock = "none"
    /\ Len(files) = 1
    /\ files[1].pipefd = 5
    /\ pipes[5].logged = <<1, 2>>
    /\ pipes[5].buf = <<3>>
    /\ ~IsOpen(fds, 3)
\* C27: in no interleaving of a callback whose append rotates the file
\* with a read_log_file on the same path does the reader enumerate, seek
\* in or consume from a set of files that is half rotated (renamed, the
\* new current file not yet created); a rotation that has started is
\* completed before any append and before any step of read_log_file on
\* that path.
HalfRotated == rot.op = "rotating"
AppendStep == pc["loop"] = "append" /\ pc'["loop"] \in {"kept", "error"}
C27_RotationAtomic ==
    /\ [][(RdStep \/ AppendStep) => ~HalfRotated]_vars
    /\ [](HalfRotated => (lock = "loop" /\ pc["rpc"] \notin {"locked", "done"}))
    /\ [](~HalfRotated => \A i \in 1 .. Len(rot.chain) : rot.chain[i].ino # 0)
    /\ HalfRotated ~> ~HalfRotated
\* The log of the second guest has been read from its backup on, after
\* the callback had rotated it.
C27_Witness ==
    /\ pc["rpc"] = "done"
    /\ loc["rpc"].op = "read"
    /\ loc["rpc"].path = LPath2
    /\ Len(rot.chain) = 2
    /\ rot.chain[1].data = <<3>>
    /\ loc["rpc"].res = ReadResult("none", <<1, 2>>)
\* C28: a restore that fails closes no descriptor other than the pipefd
\* values it read from the document and removes no watch that was
\* registered before it began; descriptor 0 in particular stays open.
C28_FailedRestoreTouchesOnlyDocument ==
    [][(RestoreStep /\ ret'.err # "none") =>
          /\ \A fd \in FD :
                (IsOpen(fds, fd) /\ ~IsOpen(fds', fd)) =>
                   \E j \in 1 .. Len(ret'.doc.files) :
                      /\ ret'.doc.files[j].hasfd
                      /\ ret'.doc.files[j].pipefd = fd
          /\ \A w \in WatchId : handles[w] # -1 => handles'[w] = handles[w]]_vars
====
